---- MODULE Spec2Model ----
(***************************************************************************)
(* Edit history engine (CodeHistoryService) and the chat panel handlers    *)
(* that drive it (ChatPanel.handleApplySuggestion / handleUndo /           *)
(* handleRedo, MainInterface.handleCodeUpdate) of LeoForge Neo.            *)
(*                                                                         *)
(* The two Maps of the service are modelled as functions whose DOMAIN is   *)
(* the set of keys present, so that Map.get on an absent key (undefined)   *)
(* is distinguished from a stored 0.  Entry timestamps are left out: no    *)
(* code path reads them.                                                   *)
(***************************************************************************)
EXTENDS Integers, Sequences, FiniteSets, TLC

VARIABLES history, currentIndex, nextId, lastOp, preHistory, preIndex, preApp,
          files, currentFile, messages,
          messageSuggestions, nextMsgId, sending, applying, cards,
          editorPanel, saved

vars == <<history, currentIndex, nextId, lastOp, preHistory, preIndex, preApp,
          files, currentFile, messages,
          messageSuggestions, nextMsgId, sending, applying, cards,
          editorPanel, saved>>

svcVars == <<history, currentIndex, nextId>>
appVars == <<files, currentFile, messages>>

\* state of the chat panel: the suggestions shown with each message, the
\* message id generator, the handleSendMessage call waiting for its answer,
\* the handleApplySuggestion call under way and the state of the rendered
\* CodeSuggestion components
panelVars == <<messageSuggestions, nextMsgId, sending, applying, cards>>

\* state of the editor panel (its lastSavedContent, the mounted editor with
\* the closure of its handlers, the pending auto-saves) and the content each
\* document had when it was last saved
editorVars == <<editorPanel, saved>>

(* ------------------------------ bounds --------------------------------- *)

\* history cap of the service; the program's value is 50
\* (CodeHistoryService.ts:16), scaled down so that eviction is reachable
maxHistorySize == 3

\* number of entries ever created (bounds generateEntryId's counter)
MaxEntries == 4

\* number of entries the chat panel's handlers are allowed to create
MaxPanelEntries == 6

\* number of chat messages ever created
MaxMessages == 4

\* number of chat messages ever created while the suggestion components
\* are driven
MaxProtocolMessages == 3

\* number of entries ever created while the editor is watched
MaxEditorEntries == 3

\* number of chat messages ever created while the editor is watched
MaxEditorMessages == 2

\* number of events the editor panel handles (file selections, mounts,
\* content changes, saves)
MaxEditorEvents == 5

(* ------------------------------ values --------------------------------- *)

FileIds == {"f1", "f2"}

\* document contents are character sequences
Contents == {<<"X">>, <<"Y">>}

\* contents of the project's files when the project is loaded
InitialContent == [f \in FileIds |-> IF f = "f1" THEN <<"X", "X">> ELSE <<"X">>]

\* a LeoFile of the project: name and path stand for the display metadata
LeoFile(f) ==
  [id |-> f, name |-> <<f, ".leo">>, path |-> <<"/", f, ".leo">>, type |-> "leo",
   content |-> InitialContent[f], isModified |-> FALSE]

\* JavaScript's two empty values, kept apart from entries
null == [kind |-> "null"]
undefined == [kind |-> "undefined"]

\* if (value) ... on an entry-or-null-or-undefined value
Truthy(v) == v # null /\ v # undefined

\* the descriptions the callers of addEntry pass (template strings are kept
\* as their parts)
ManualEdit == <<"Manual edit">>
BeforeApplying(title) == <<"Before applying: ", title>>
Applied(title) == <<"Applied: ", title>>

(* --------------------------- Map helpers ------------------------------- *)

\* variant of MapSet: the value is stored under every key of the map
MapSetEveryKey(m, k, v) == [x \in (DOMAIN m) \cup {k} |-> v]

\* Map.set(k, v)
MapSet(m, k, v) == [x \in (DOMAIN m) \cup {k} |-> IF x = k THEN v ELSE m[x]]

\* Map.delete(k)
MapDelete(m, k) == [x \in (DOMAIN m) \ {k} |-> m[x]]

\* new Map() / Map.clear()
EmptyMap == [x \in {} |-> 0]

\* this.history.get(id) || []     (an array, even empty, is truthy)
HistoryOrEmpty(h, id) == IF id \in DOMAIN h THEN h[id] ELSE <<>>

\* this.currentIndex.get(id) || -1   (undefined and 0 are both falsy)
IndexOrMinusOne(ci, id) == IF id \in DOMAIN ci /\ ci[id] # 0 THEN ci[id] ELSE -1

\* fileHistory[i] on a JavaScript array: undefined outside 0..length-1
At(arr, i) == IF i >= 0 /\ i < Len(arr) THEN arr[i + 1] ELSE undefined

(* ----------------------- CodeHistoryService ---------------------------- *)

\* fileHistory.splice(currentIdx + 1) when currentIdx < length - 1
Truncate(fileHistory, currentIdx) ==
  IF currentIdx < Len(fileHistory) - 1
    THEN SubSeq(fileHistory, 1, currentIdx + 1)
    ELSE fileHistory

\* variant of LimitSize: the list is allowed one entry more than the cap
LimitSizeLate(fileHistory) ==
  IF Len(fileHistory) > maxHistorySize + 1 THEN Tail(fileHistory) ELSE fileHistory

\* variant of LimitSize: the newest entry is dropped instead of the oldest
LimitSizeDropsNewest(fileHistory) ==
  IF Len(fileHistory) > maxHistorySize
    THEN SubSeq(fileHistory, 1, Len(fileHistory) - 1)
    ELSE fileHistory

\* fileHistory.shift() when the list is longer than maxHistorySize
LimitSize(fileHistory) ==
  IF Len(fileHistory) > maxHistorySize THEN Tail(fileHistory) ELSE fileHistory

NewEntry(id, fileId, content, description, isAgentChange) ==
  [id |-> id, fileId |-> fileId, content |-> content,
   description |-> description, isAgentChange |-> isAgentChange]

\* the list addEntry stores for file.id
AddEntryList(h, ci, id, fileId, content, description, isAgentChange) ==
  LimitSize(Append(Truncate(HistoryOrEmpty(h, fileId), IndexOrMinusOne(ci, fileId)),
                   NewEntry(id, fileId, content, description, isAgentChange)))

\* addEntry as a function of the two maps: the maps after the call
AddEntryHistory(h, ci, id, fileId, content, description, isAgentChange) ==
  MapSet(h, fileId, AddEntryList(h, ci, id, fileId, content, description, isAgentChange))

\* variant of AddEntryIndex: the position is set to the length of the list
\* instead of the index of its last entry
AddEntryIndexPastTail(h, ci, id, fileId, content, description, isAgentChange) ==
  MapSet(ci, fileId,
         Len(AddEntryList(h, ci, id, fileId, content, description, isAgentChange)))

AddEntryIndex(h, ci, id, fileId, content, description, isAgentChange) ==
  MapSet(ci, fileId,
         Len(AddEntryList(h, ci, id, fileId, content, description, isAgentChange)) - 1)

canUndo(ci, fileId) == IndexOrMinusOne(ci, fileId) > 0

\* variant of canRedo: the comparison with the last index is not strict
canRedoInclusive(h, ci, fileId) ==
  IndexOrMinusOne(ci, fileId) <= Len(HistoryOrEmpty(h, fileId)) - 1

canRedo(h, ci, fileId) ==
  IndexOrMinusOne(ci, fileId) < Len(HistoryOrEmpty(h, fileId)) - 1

\* variant of UndoIndex: the position moves back by two
UndoIndexByTwo(ci, fileId) ==
  IF canUndo(ci, fileId) THEN MapSet(ci, fileId, ci[fileId] - 2) ELSE ci

\* undo: the index map after the call, and the value returned
UndoIndex(ci, fileId) ==
  IF canUndo(ci, fileId) THEN MapSet(ci, fileId, ci[fileId] - 1) ELSE ci

\* variant of UndoResult: the entry at the old position is returned
UndoResultOldPosition(h, ci, fileId) ==
  IF canUndo(ci, fileId) THEN At(h[fileId], ci[fileId]) ELSE null

UndoResult(h, ci, fileId) ==
  IF canUndo(ci, fileId) THEN At(h[fileId], ci[fileId] - 1) ELSE null

\* redo: the index map after the call, and the value returned
RedoIndex(h, ci, fileId) ==
  IF canRedo(h, ci, fileId) THEN MapSet(ci, fileId, ci[fileId] + 1) ELSE ci

RedoResult(h, ci, fileId) ==
  IF canRedo(h, ci, fileId) THEN At(h[fileId], ci[fileId] + 1) ELSE null

getHistory(h, fileId) == HistoryOrEmpty(h, fileId)

getCurrentEntry(h, ci, fileId) ==
  IF fileId \notin DOMAIN h \/ fileId \notin DOMAIN ci \/ ci[fileId] < 0
    THEN null
    ELSE At(h[fileId], ci[fileId])

(* ----------------------------- ghost state ----------------------------- *)

\* no handleApplySuggestion call is under way
Idle == [pc |-> "idle"]

\* no <Editor> is mounted (no current file is rendered)
NoEditor == [mounted |-> FALSE]

NoBefore == [idx |-> -1, entry |-> null]

NoOp == [op |-> "none", fileId |-> "none", result |-> null, arg |-> null,
         after |-> "none", before |-> NoBefore]

\* record of the call just made: its name, document, argument and result;
\* "after" is the call that preceded it when that call was made on the same
\* document and returned an entry; "before" is the position and current
\* entry as they were before an undo, kept over the redo that follows it
Call(op, fileId, arg, result) ==
  [op |-> op, fileId |-> fileId, result |-> result, arg |-> arg,
   after |-> IF lastOp.fileId = fileId /\ Truthy(lastOp.result)
               THEN lastOp.op ELSE "none",
   before |-> IF op = "undo" /\ Truthy(result)
                THEN [idx |-> currentIndex[fileId],
                      entry |-> getCurrentEntry(history, currentIndex, fileId)]
                ELSE IF op = "redo" /\ lastOp.op = "undo" /\ lastOp.fileId = fileId
                  THEN lastOp.before
                  ELSE NoBefore]

\* what the documents, the messages and the suggestions were when the last
\* call started
AppState == [files |-> files, messages |-> messages,
             messageSuggestions |-> messageSuggestions, cards |-> cards]

Snapshot == preHistory' = history /\ preIndex' = currentIndex /\ preApp' = AppState

(* ------------------------------ actions -------------------------------- *)

Init ==
  /\ history = EmptyMap
  /\ currentIndex = EmptyMap
  /\ nextId = 1
  /\ lastOp = NoOp
  /\ preHistory = EmptyMap
  /\ preIndex = EmptyMap
  /\ files = [f \in FileIds |-> LeoFile(f)]
  /\ currentFile = "none"
  /\ messages = <<>>
  /\ messageSuggestions = EmptyMap
  /\ nextMsgId = 1
  /\ sending = <<>>
  /\ applying = Idle
  /\ cards = EmptyMap
  /\ editorPanel = [lastSavedContent |-> <<>>, editor |-> NoEditor, saveTimeouts |-> {},
                    events |-> 0]
  /\ saved = [f \in FileIds |-> InitialContent[f]]
  /\ preApp = AppState

\* CodeHistoryService.addEntry(file, description, isAgentChange)
addEntry(fileId, content, description, isAgentChange) ==
  /\ nextId <= MaxEntries
  /\ history' = AddEntryHistory(history, currentIndex, nextId, fileId, content,
                                description, isAgentChange)
  /\ currentIndex' = AddEntryIndex(history, currentIndex, nextId, fileId, content,
                                   description, isAgentChange)
  /\ nextId' = nextId + 1
  /\ lastOp' = Call("addEntry", fileId,
                    NewEntry(nextId, fileId, content, description, isAgentChange),
                    null)
  /\ Snapshot
  /\ UNCHANGED appVars
  /\ UNCHANGED panelVars
  /\ UNCHANGED editorVars

\* CodeHistoryService.undo(fileId)
undo(fileId) ==
  /\ currentIndex' = UndoIndex(currentIndex, fileId)
  /\ lastOp' = Call("undo", fileId, null, UndoResult(history, currentIndex, fileId))
  /\ Snapshot
  /\ UNCHANGED <<history, nextId>>
  /\ UNCHANGED appVars
  /\ UNCHANGED panelVars
  /\ UNCHANGED editorVars

\* CodeHistoryService.redo(fileId)
redo(fileId) ==
  /\ currentIndex' = RedoIndex(history, currentIndex, fileId)
  /\ lastOp' = Call("redo", fileId, null, RedoResult(history, currentIndex, fileId))
  /\ Snapshot
  /\ UNCHANGED <<history, nextId>>
  /\ UNCHANGED appVars
  /\ UNCHANGED panelVars
  /\ UNCHANGED editorVars

\* CodeHistoryService.clearHistory(fileId)
clearHistory(fileId) ==
  /\ history' = MapDelete(history, fileId)
  /\ currentIndex' = MapDelete(currentIndex, fileId)
  /\ lastOp' = Call("clearHistory", fileId, null, null)
  /\ Snapshot
  /\ UNCHANGED nextId
  /\ UNCHANGED appVars
  /\ UNCHANGED panelVars
  /\ UNCHANGED editorVars

\* CodeHistoryService.clearAllHistory()
clearAllHistory ==
  /\ history' = EmptyMap
  /\ currentIndex' = EmptyMap
  /\ lastOp' = Call("clearAllHistory", "none", null, null)
  /\ Snapshot
  /\ UNCHANGED nextId
  /\ UNCHANGED appVars
  /\ UNCHANGED panelVars
  /\ UNCHANGED editorVars

\* the calls a client of the service can make
AddKinds == {<<ManualEdit, FALSE>>, <<Applied("T"), TRUE>>}

Next ==
  \/ \E f \in FileIds, c \in Contents, k \in AddKinds : addEntry(f, c, k[1], k[2])
  \/ \E f \in FileIds : undo(f)
  \/ \E f \in FileIds : redo(f)
  \/ \E f \in FileIds : clearHistory(f)
  \/ clearAllHistory

Spec == Init /\ [][Next]_vars

\* addEntry calls only: every document sees a sequence of addEntry calls
\* starting from its empty history
NextAdd ==
  \E f \in FileIds, c \in Contents, k \in AddKinds : addEntry(f, c, k[1], k[2])

SpecAdd == Init /\ [][NextAdd]_vars

(* ------------------- String.prototype.replace (string pattern) --------- *)

\* the pattern occurs in s at position i (1-based); the empty pattern occurs
\* at every position
OccursAt(s, pattern, i) ==
  /\ i + Len(pattern) - 1 <= Len(s)
  /\ SubSeq(s, i, i + Len(pattern) - 1) = pattern

\* position of the first occurrence, 0 when there is none
IndexOf(s, pattern) ==
  IF \E i \in 1..(Len(s) + 1) : OccursAt(s, pattern, i)
    THEN CHOOSE i \in 1..(Len(s) + 1) :
           /\ OccursAt(s, pattern, i)
           /\ \A j \in 1..(i - 1) : ~OccursAt(s, pattern, j)
    ELSE 0

\* expansion of the replacement text: $$, $&, $` and $' are patterns, any
\* other character (and a $ followed by anything else) stands for itself
RECURSIVE GetSubstitution(_, _, _, _)
GetSubstitution(replacement, matched, before, after) ==
  IF replacement = <<>> THEN <<>>
  ELSE IF Head(replacement) = "$" /\ Len(replacement) >= 2
            /\ replacement[2] \in {"$", "&", "`", "'"}
    THEN (CASE replacement[2] = "$" -> <<"$">>
            [] replacement[2] = "&" -> matched
            [] replacement[2] = "`" -> before
            [] replacement[2] = "'" -> after)
         \o GetSubstitution(SubSeq(replacement, 3, Len(replacement)),
                            matched, before, after)
    ELSE <<Head(replacement)>>
         \o GetSubstitution(Tail(replacement), matched, before, after)

\* updatedCode.replace(change.oldContent, change.newContent)
StringReplace(s, pattern, replacement) ==
  LET i == IndexOf(s, pattern) IN
    IF i = 0 THEN s
    ELSE LET before == SubSeq(s, 1, i - 1)
             after == SubSeq(s, i + Len(pattern), Len(s))
         IN before \o GetSubstitution(replacement, pattern, before, after) \o after

(* ------------------------------ ChatPanel ------------------------------ *)

Change(oldContent, newContent) ==
  [oldContent |-> oldContent, newContent |-> newContent]

\* the suggestions offered to the panel
Suggestions ==
  { [id |-> "s1", title |-> "T", changes |-> <<Change(<<"X">>, <<"Y">>)>>],
    [id |-> "s2", title |-> "U",
     changes |-> <<Change(<<"X">>, <<"Y">>), Change(<<"Y">>, <<"Z">>)>>],
    [id |-> "s3", title |-> "V", changes |-> <<>>],
    [id |-> "s4", title |-> "W", changes |-> <<Change(<<"Q">>, <<"Z">>)>>],
    [id |-> "s5", title |-> "D", changes |-> <<Change(<<"X">>, <<"$", "&">>)>>] }

\* variant of ApplyChanges: every change is applied to the original content,
\* so only the last one shows
ApplyChangesToOriginal(code, changes) ==
  IF changes = <<>> THEN code
  ELSE StringReplace(code, changes[Len(changes)].oldContent,
                     changes[Len(changes)].newContent)

\* suggestion.changes.forEach(change => updatedCode = updatedCode.replace(...))
RECURSIVE ApplyChanges(_, _)
ApplyChanges(code, changes) ==
  IF changes = <<>> THEN code
  ELSE ApplyChanges(StringReplace(code, Head(changes).oldContent,
                                  Head(changes).newContent),
                    Tail(changes))

\* MainInterface.handleCodeUpdate(code): the current file gets the code and
\* isModified = true, the other files of the project are kept
\* variant of CodeUpdate: the updated file replaces every file of the project
CodeUpdateEveryFile(fs, cur, code) ==
  IF cur = "none" THEN fs
  ELSE [g \in DOMAIN fs |-> [fs[cur] EXCEPT !.content = code, !.isModified = TRUE]]

\* variant of CodeUpdate: the file is flagged as modified but keeps its content
CodeUpdateFlagOnly(fs, cur, code) ==
  IF cur = "none" THEN fs ELSE [fs EXCEPT ![cur].isModified = TRUE]

CodeUpdate(fs, cur, code) ==
  IF cur = "none" THEN fs
  ELSE [g \in DOMAIN fs |->
          IF fs[g].id = fs[cur].id
            THEN [fs[cur] EXCEPT !.content = code, !.isModified = TRUE]
            ELSE fs[g]]

ChatMessage(id, sender, text, title) ==
  [id |-> id, sender |-> sender, content |-> <<text, title>>]

\* record of a handler call of the panel
PanelCall(op, arg, result) ==
  [op |-> op, fileId |-> currentFile, result |-> result, arg |-> arg,
   after |-> IF lastOp.fileId = currentFile /\ Truthy(lastOp.result)
               THEN lastOp.op ELSE "none",
   before |-> NoBefore]

\* setCurrentFile(file) of MainInterface (handleFileSelect, handleFileClose).
\* ChatPanel reads the file from its currentFile prop; the model passes the
\* host's current file for it.
setCurrentFile(f) ==
  /\ currentFile' = f
  /\ lastOp' = [NoOp EXCEPT !.op = "setCurrentFile", !.fileId = f]
  /\ Snapshot
  /\ UNCHANGED <<history, currentIndex, nextId, files, messages>>
  /\ UNCHANGED panelVars
  /\ UNCHANGED editorVars

\* ChatPanel.handleApplySuggestion(suggestion)
ApplySuggestion(suggestion) ==
  /\ nextId + 1 <= MaxPanelEntries
  /\ nextMsgId <= MaxMessages
  /\ Snapshot
  /\ UNCHANGED <<messageSuggestions, sending, applying>>
  /\ UNCHANGED editorVars
  /\ IF currentFile = "none"
       THEN /\ lastOp' = PanelCall("handleApplySuggestion", null, null)
            /\ UNCHANGED <<history, currentIndex, nextId, files, currentFile, messages,
                           nextMsgId>>
       ELSE LET oldCode == files[currentFile].content
                updatedCode == ApplyChanges(oldCode, suggestion.changes)
                h1 == AddEntryHistory(history, currentIndex, nextId, currentFile,
                                      oldCode, BeforeApplying(suggestion.title), FALSE)
                i1 == AddEntryIndex(history, currentIndex, nextId, currentFile,
                                    oldCode, BeforeApplying(suggestion.title), FALSE)
            IN /\ history' = AddEntryHistory(h1, i1, nextId + 1, currentFile,
                                             updatedCode, Applied(suggestion.title), TRUE)
               /\ currentIndex' = AddEntryIndex(h1, i1, nextId + 1, currentFile,
                                                updatedCode, Applied(suggestion.title), TRUE)
               /\ nextId' = nextId + 2
               /\ files' = CodeUpdate(files, currentFile, updatedCode)
               /\ messages' = Append(messages,
                                     ChatMessage(nextMsgId, "agent", "Applied suggestion: ",
                                                 suggestion.title))
               /\ nextMsgId' = nextMsgId + 1
               /\ lastOp' = PanelCall("handleApplySuggestion",
                                      [suggestion |-> suggestion, oldCode |-> oldCode,
                                       updatedCode |-> updatedCode,
                                       firstId |-> nextId, files |-> files],
                                      null)
               /\ UNCHANGED currentFile

\* ChatPanel.handleApplySuggestion(suggestion), called with the components
\* of the suggestions left as they are
handleApplySuggestion(suggestion) ==
  /\ ApplySuggestion(suggestion)
  /\ UNCHANGED cards

\* variant of handleUndo: the test for an absent document is missing and
\* the handler reports an undo all the same
handleUndoWithoutGuard ==
  /\ nextMsgId <= MaxMessages
  /\ Snapshot
  /\ UNCHANGED <<messageSuggestions, sending, applying, cards>>
  /\ UNCHANGED editorVars
  /\ IF currentFile = "none"
       THEN /\ lastOp' = PanelCall("handleUndo", null, null)
            /\ messages' = Append(messages, ChatMessage(nextMsgId, "agent", "Undid: ", ""))
            /\ nextMsgId' = nextMsgId + 1
            /\ UNCHANGED <<history, currentIndex, nextId, files, currentFile>>
       ELSE LET previousEntry == UndoResult(history, currentIndex, currentFile)
            IN /\ currentIndex' = UndoIndex(currentIndex, currentFile)
               /\ lastOp' = PanelCall("handleUndo", null, previousEntry)
               /\ IF Truthy(previousEntry)
                    THEN /\ files' = CodeUpdate(files, currentFile, previousEntry.content)
                         /\ messages' = Append(messages,
                                               ChatMessage(nextMsgId, "agent", "Undid: ",
                                                           previousEntry.description))
                         /\ nextMsgId' = nextMsgId + 1
                    ELSE UNCHANGED <<files, messages, nextMsgId>>
               /\ UNCHANGED <<history, nextId, currentFile>>

\* ChatPanel.handleUndo()
handleUndo ==
  /\ nextMsgId <= MaxMessages
  /\ Snapshot
  /\ UNCHANGED <<messageSuggestions, sending, applying, cards>>
  /\ UNCHANGED editorVars
  /\ IF currentFile = "none"
       THEN /\ lastOp' = PanelCall("handleUndo", null, null)
            /\ UNCHANGED <<history, currentIndex, nextId, files, currentFile, messages,
                           nextMsgId>>
       ELSE LET previousEntry == UndoResult(history, currentIndex, currentFile)
            IN /\ currentIndex' = UndoIndex(currentIndex, currentFile)
               /\ lastOp' = PanelCall("handleUndo", null, previousEntry)
               /\ IF Truthy(previousEntry)
                    THEN /\ files' = CodeUpdate(files, currentFile, previousEntry.content)
                         /\ messages' = Append(messages,
                                               ChatMessage(nextMsgId, "agent", "Undid: ",
                                                           previousEntry.description))
                         /\ nextMsgId' = nextMsgId + 1
                    ELSE UNCHANGED <<files, messages, nextMsgId>>
               /\ UNCHANGED <<history, nextId, currentFile>>

\* ChatPanel.handleRedo()
handleRedo ==
  /\ nextMsgId <= MaxMessages
  /\ Snapshot
  /\ UNCHANGED <<messageSuggestions, sending, applying, cards>>
  /\ UNCHANGED editorVars
  /\ IF currentFile = "none"
       THEN /\ lastOp' = PanelCall("handleRedo", null, null)
            /\ UNCHANGED <<history, currentIndex, nextId, files, currentFile, messages,
                           nextMsgId>>
       ELSE LET nextEntry == RedoResult(history, currentIndex, currentFile)
            IN /\ currentIndex' = RedoIndex(history, currentIndex, currentFile)
               /\ lastOp' = PanelCall("handleRedo", null, nextEntry)
               /\ IF Truthy(nextEntry)
                    THEN /\ files' = CodeUpdate(files, currentFile, nextEntry.content)
                         /\ messages' = Append(messages,
                                               ChatMessage(nextMsgId, "agent", "Redid: ",
                                                           nextEntry.description))
                         /\ nextMsgId' = nextMsgId + 1
                    ELSE UNCHANGED <<files, messages, nextMsgId>>
               /\ UNCHANGED <<history, nextId, currentFile>>

\* the chat panel and its host
NextPanel ==
  \/ \E f \in FileIds \cup {"none"} : setCurrentFile(f)
  \/ \E s \in Suggestions : handleApplySuggestion(s)
  \/ handleUndo
  \/ handleRedo

SpecPanel == Init /\ [][NextPanel]_vars

(* ------------- handleApplySuggestion, statement by statement ------------- *)

\* ChatPanel.handleApplySuggestion up to and including its first statement
\* that changes state: the guard, then addEntry(currentFile, "Before
\* applying: ...", false)
applyEnter(suggestion) ==
  /\ applying = Idle
  /\ nextId + 1 <= MaxPanelEntries
  /\ nextMsgId <= MaxMessages
  /\ Snapshot
  /\ UNCHANGED <<files, currentFile, messages, messageSuggestions, nextMsgId, sending,
                 cards>>
  /\ UNCHANGED editorVars
  /\ IF currentFile = "none"
       THEN /\ lastOp' = PanelCall("handleApplySuggestion", null, null)
            /\ UNCHANGED <<history, currentIndex, nextId, applying>>
       ELSE LET oldCode == files[currentFile].content
            IN /\ history' = AddEntryHistory(history, currentIndex, nextId, currentFile,
                                             oldCode, BeforeApplying(suggestion.title),
                                             FALSE)
               /\ currentIndex' = AddEntryIndex(history, currentIndex, nextId,
                                                currentFile, oldCode,
                                                BeforeApplying(suggestion.title), FALSE)
               /\ nextId' = nextId + 1
               /\ applying' = [pc |-> "changes", suggestion |-> suggestion,
                               fileId |-> currentFile, oldCode |-> oldCode,
                               updatedCode |-> oldCode, applied |-> 0,
                               firstId |-> nextId]
               /\ lastOp' = PanelCall("addEntry", null, null)

\* one turn of suggestion.changes.forEach: the next change is replaced in
\* the text built so far
applyChange ==
  /\ applying # Idle
  /\ applying.applied < Len(applying.suggestion.changes)
  /\ LET change == applying.suggestion.changes[applying.applied + 1]
     IN applying' = [applying EXCEPT
                       !.updatedCode = StringReplace(@, change.oldContent,
                                                     change.newContent),
                       !.applied = @ + 1]
  /\ UNCHANGED <<history, currentIndex, nextId, lastOp, preHistory, preIndex, preApp,
                 files, currentFile, messages, messageSuggestions, nextMsgId, sending,
                 cards>>
  /\ UNCHANGED editorVars

\* the statements after the loop: onCodeUpdate, addEntry(updatedFile,
\* "Applied: ...", true) and the message about the change
applyLeave ==
  /\ applying # Idle
  /\ applying.applied = Len(applying.suggestion.changes)
  /\ LET suggestion == applying.suggestion
         updatedCode == applying.updatedCode
     IN /\ files' = CodeUpdate(files, currentFile, updatedCode)
        /\ history' = AddEntryHistory(history, currentIndex, nextId, currentFile,
                                      updatedCode, Applied(suggestion.title), TRUE)
        /\ currentIndex' = AddEntryIndex(history, currentIndex, nextId, currentFile,
                                         updatedCode, Applied(suggestion.title), TRUE)
        /\ nextId' = nextId + 1
        /\ messages' = Append(messages,
                              ChatMessage(nextMsgId, "agent", "Applied suggestion: ",
                                          suggestion.title))
        /\ nextMsgId' = nextMsgId + 1
        /\ lastOp' = PanelCall("handleApplySuggestion",
                               [suggestion |-> suggestion, oldCode |-> applying.oldCode,
                                updatedCode |-> updatedCode,
                                firstId |-> applying.firstId, files |-> files],
                               null)
  /\ applying' = Idle
  /\ UNCHANGED <<preHistory, preIndex, preApp, currentFile, messageSuggestions, sending,
                 cards>>
  /\ UNCHANGED editorVars

\* the handler runs to completion: no other handler of the panel or of its
\* host starts while it is under way
NextApplySteps ==
  \/ \E f \in FileIds \cup {"none"} : applying = Idle /\ setCurrentFile(f)
  \/ \E s \in Suggestions : applyEnter(s)
  \/ applyChange
  \/ applyLeave
  \/ applying = Idle /\ handleUndo
  \/ applying = Idle /\ handleRedo

SpecApplySteps == Init /\ [][NextApplySteps]_vars

(* ----------------- ChatPanel: messages and their suggestions ----------------- *)

Sugg(id) == CHOOSE s \in Suggestions : s.id = id

\* what LLMService.analyzeAndSuggest may answer with
AnalysisSuggestions == { <<>>, <<Sugg("s1")>>, <<Sugg("s1"), Sugg("s3")>> }

\* the suggestions ChatPanel renders: those stored for a message of the
\* messages prop (messageSuggestions.get(message.id) || [])
Rendered(msgs, ms) ==
  UNION { { ms[msgs[i].id][j] : j \in 1..Len(ms[msgs[i].id]) } :
          i \in { k \in 1..Len(msgs) : msgs[k].id \in DOMAIN ms } }

\* the CodeSuggestion components ChatPanel renders, by the keys React
\* gives them: the message's id, then the suggestion's id
InstanceKeys(msgs, ms) ==
  UNION { { <<msgs[i].id, ms[msgs[i].id][j].id>> : j \in 1..Len(ms[msgs[i].id]) } :
          i \in { k \in 1..Len(msgs) : msgs[k].id \in DOMAIN ms } }

\* useState(false) three times: a component starts collapsed, with its diff
\* hidden and its dialog closed
DefaultCard == [isExpanded |-> FALSE, showDiff |-> FALSE, showConfirmation |-> FALSE]

\* the components after a render: one that stays mounted keeps its state,
\* a new one starts from the defaults, one no longer rendered is gone
Mounted(cs, msgs, ms) ==
  [k \in InstanceKeys(msgs, ms) |-> IF k \in DOMAIN cs THEN cs[k] ELSE DefaultCard]

\* ChatPanel.handleSendMessage() up to its await: the user's message is
\* added and the request leaves with the messages and the file of this
\* render; analyze tells whether the input asks for an analysis
handleSendMessage(analyze) ==
  /\ applying = Idle
  /\ sending = <<>>
  /\ nextMsgId < MaxMessages
  /\ Snapshot
  /\ LET userMessage == ChatMessage(nextMsgId, "user", "input", "")
         updatedMessages == Append(messages, userMessage)
     IN /\ messages' = updatedMessages
        /\ sending' = << [updatedMessages |-> updatedMessages,
                          analysis |-> analyze /\ currentFile # "none"
                                       /\ files[currentFile].type = "leo"] >>
  /\ nextMsgId' = nextMsgId + 1
  /\ lastOp' = PanelCall("handleSendMessage", null, null)
  /\ UNCHANGED <<history, currentIndex, nextId, files, currentFile,
                 messageSuggestions, applying, cards>>
  /\ UNCHANGED editorVars

\* ChatPanel.handleSendMessage() after its await: the answer (or the error
\* message when the service threw) is appended to the messages the call
\* started with, and the suggestions of an analysis are stored under the
\* answer's id when there are any
handleSendMessageResumed(ok, suggestions) ==
  /\ applying = Idle
  /\ sending # <<>>
  /\ nextMsgId <= MaxMessages
  /\ (ok /\ sending[1].analysis) \/ suggestions = <<>>
  /\ Snapshot
  /\ LET agentMessage == ChatMessage(nextMsgId, "agent",
                                     IF ok THEN "response" ELSE "error", "")
     IN /\ messages' = Append(sending[1].updatedMessages, agentMessage)
        /\ messageSuggestions' = IF Len(suggestions) > 0
                                   THEN MapSet(messageSuggestions, nextMsgId, suggestions)
                                   ELSE messageSuggestions
  /\ nextMsgId' = nextMsgId + 1
  /\ sending' = <<>>
  /\ cards' = Mounted(cards, messages', messageSuggestions')
  /\ lastOp' = PanelCall("handleSendMessageResumed", null, null)
  /\ UNCHANGED <<history, currentIndex, nextId, files, currentFile, applying>>
  /\ UNCHANGED editorVars

\* variant of Dismiss: the suggestion is removed from the first message that
\* holds it only
DismissFirstMessage(ms, suggestionId) ==
  LET holders == { k \in DOMAIN ms : \E j \in 1..Len(ms[k]) : ms[k][j].id = suggestionId }
      first == { k \in holders : \A o \in holders : k <= o }
      filteredSuggestions(m) ==
        IF m \in first THEN SelectSeq(ms[m], LAMBDA s : s.id # suggestionId) ELSE ms[m]
  IN [m \in { k \in DOMAIN ms : Len(filteredSuggestions(k)) # 0 }
        |-> filteredSuggestions(m)]

\* the Map handleDismissSuggestion builds
Dismiss(ms, suggestionId) ==
  LET filteredSuggestions(m) == SelectSeq(ms[m], LAMBDA s : s.id # suggestionId)
  IN [m \in { k \in DOMAIN ms : Len(filteredSuggestions(k)) # 0 }
        |-> filteredSuggestions(m)]

\* ChatPanel.handleDismissSuggestion(suggestionId), from the Dismiss button
\* of a rendered suggestion
handleDismissSuggestion(suggestionId) ==
  /\ applying = Idle
  /\ \E s \in Rendered(messages, messageSuggestions) : s.id = suggestionId
  /\ Snapshot
  /\ messageSuggestions' = Dismiss(messageSuggestions, suggestionId)
  /\ cards' = Mounted(cards, messages, messageSuggestions')
  /\ lastOp' = PanelCall("handleDismissSuggestion", suggestionId, null)
  /\ UNCHANGED <<history, currentIndex, nextId, files, currentFile, messages,
                 nextMsgId, sending, applying>>
  /\ UNCHANGED editorVars

\* ChatPanel.handleClearChat(), confirmed
handleClearChat ==
  /\ applying = Idle
  /\ Snapshot
  /\ messages' = <<>>
  /\ messageSuggestions' = EmptyMap
  /\ cards' = Mounted(cards, messages', messageSuggestions')
  /\ lastOp' = PanelCall("handleClearChat", null, null)
  /\ UNCHANGED <<history, currentIndex, nextId, files, currentFile,
                 nextMsgId, sending, applying>>
  /\ UNCHANGED editorVars

\* the chat panel with its suggestions: a suggestion is applied from the
\* Apply button of a rendered suggestion, after the confirmation dialog
NextChat ==
  \/ \E f \in FileIds \cup {"none"} : setCurrentFile(f)
  \/ \E analyze \in BOOLEAN : handleSendMessage(analyze)
  \/ \E ok \in BOOLEAN, suggestions \in AnalysisSuggestions :
       handleSendMessageResumed(ok, suggestions)
  \/ \E s \in Rendered(messages, messageSuggestions) : handleApplySuggestion(s)
  \/ \E s \in Suggestions : handleDismissSuggestion(s.id)
  \/ handleClearChat
  \/ handleUndo
  \/ handleRedo

SpecChat == Init /\ [][NextChat]_vars

(* ------------- CodeSuggestion component and its ConfirmationDialog ------------- *)

\* the suggestion a component renders
SuggestionOf(k) ==
  CHOOSE s \in Rendered(messages, messageSuggestions) :
    /\ s.id = k[2]
    /\ \E j \in 1..Len(messageSuggestions[k[1]]) : messageSuggestions[k[1]][j] = s

\* a call of one of the component's handlers
CardCall(op, k) ==
  [op |-> op, fileId |-> currentFile, result |-> null, arg |-> k,
   after |-> "none", before |-> NoBefore]

\* what the handlers of a component that only set its state leave alone
CardFrame ==
  UNCHANGED <<history, currentIndex, nextId, files, currentFile, messages,
              messageSuggestions, nextMsgId, sending, applying, editorPanel, saved>>

\* the expand button: setIsExpanded(!isExpanded)
setIsExpanded(k) ==
  /\ applying = Idle
  /\ k \in DOMAIN cards
  /\ cards' = [cards EXCEPT ![k].isExpanded = ~@]
  /\ lastOp' = CardCall("setIsExpanded", k)
  /\ Snapshot
  /\ CardFrame

\* the Show Changes / Hide Changes button of an expanded component:
\* setShowDiff(!showDiff); renderCodeDiff reads the changes and writes nothing
setShowDiff(k) ==
  /\ applying = Idle
  /\ k \in DOMAIN cards
  /\ cards[k].isExpanded
  /\ cards' = [cards EXCEPT ![k].showDiff = ~@]
  /\ lastOp' = CardCall("setShowDiff", k)
  /\ Snapshot
  /\ CardFrame

\* variant of handleApply: opening the dialog flags the current document
\* as modified
handleApplyFlagsDocument(k) ==
  /\ applying = Idle
  /\ k \in DOMAIN cards
  /\ cards[k].isExpanded
  /\ cards' = [cards EXCEPT ![k].showConfirmation = TRUE]
  /\ files' = CodeUpdate(files, currentFile,
                         IF currentFile = "none" THEN <<>> ELSE files[currentFile].content)
  /\ lastOp' = CardCall("handleApply", k)
  /\ Snapshot
  /\ UNCHANGED <<history, currentIndex, nextId, currentFile, messages,
                 messageSuggestions, nextMsgId, sending, applying, editorPanel, saved>>

\* CodeSuggestion.handleApply(), the Apply button of an expanded component:
\* the confirmation dialog opens
handleApply(k) ==
  /\ applying = Idle
  /\ k \in DOMAIN cards
  /\ cards[k].isExpanded
  /\ cards' = [cards EXCEPT ![k].showConfirmation = TRUE]
  /\ lastOp' = CardCall("handleApply", k)
  /\ Snapshot
  /\ CardFrame

\* variant of handleConfirmApply: the dialog stays open after the apply
handleConfirmApplyDialogStays(k) ==
  /\ applying = Idle
  /\ k \in DOMAIN cards
  /\ cards[k].showConfirmation
  /\ UNCHANGED cards
  /\ ApplySuggestion(SuggestionOf(k))

\* CodeSuggestion.handleConfirmApply(), the Apply Changes button of the open
\* dialog: the dialog closes and onApply(suggestion) runs
handleConfirmApply(k) ==
  /\ applying = Idle
  /\ k \in DOMAIN cards
  /\ cards[k].showConfirmation
  /\ cards' = [cards EXCEPT ![k].showConfirmation = FALSE]
  /\ ApplySuggestion(SuggestionOf(k))

\* CodeSuggestion.handleCancelApply(), the Cancel button, the close button
\* or the overlay of the open dialog
handleCancelApply(k) ==
  /\ applying = Idle
  /\ k \in DOMAIN cards
  /\ cards[k].showConfirmation
  /\ cards' = [cards EXCEPT ![k].showConfirmation = FALSE]
  /\ lastOp' = CardCall("handleCancelApply", k)
  /\ Snapshot
  /\ CardFrame

\* CodeSuggestion.handleDismiss(), the Dismiss button of an expanded
\* component: onDismiss(suggestion.id)
handleDismiss(k) ==
  /\ k \in DOMAIN cards
  /\ cards[k].isExpanded
  /\ handleDismissSuggestion(k[2])

\* every key a component can have
CardKeys == (1..MaxMessages) \X { s.id : s \in Suggestions }

\* the chat panel driven through its rendered components
NextProtocol ==
  \/ \E f \in FileIds \cup {"none"} : setCurrentFile(f)
  \/ \E analyze \in BOOLEAN :
       nextMsgId < MaxProtocolMessages /\ handleSendMessage(analyze)
  \/ \E ok \in BOOLEAN, suggestions \in AnalysisSuggestions :
       nextMsgId <= MaxProtocolMessages /\ handleSendMessageResumed(ok, suggestions)
  \/ \E k \in CardKeys : setIsExpanded(k)
  \/ \E k \in CardKeys : setShowDiff(k)
  \/ \E k \in CardKeys : handleApply(k)
  \/ \E k \in CardKeys :
       nextMsgId <= MaxProtocolMessages /\ handleConfirmApply(k)
  \/ \E k \in CardKeys : handleCancelApply(k)
  \/ \E k \in CardKeys : handleDismiss(k)

SpecProtocol == Init /\ [][NextProtocol]_vars

(* ------------------- EditorPanel and the host's file handlers ------------------- *)

RECURSIVE TrimStart(_)
TrimStart(str) ==
  IF str # <<>> /\ Head(str) = " " THEN TrimStart(Tail(str)) ELSE str

RECURSIVE TrimEnd(_)
TrimEnd(str) ==
  IF str # <<>> /\ str[Len(str)] = " "
    THEN TrimEnd(SubSeq(str, 1, Len(str) - 1))
    ELSE str

\* String.prototype.trim()
Trim(str) == TrimEnd(TrimStart(str))

\* what the user can type into the editor
TypedContents == { <<"X", "X">>, <<"Y">>, <<"Y", " ">> }

\* the suggestions applied while the editor is watched
EditorSuggestions == { Sugg("s1"), Sugg("s3") }

\* handleFileChange(content) of the render whose currentFile and project
\* files are given: the project's files after updateProject
FileChange(file, fs, content) ==
  [fs EXCEPT ![file.id] = [file EXCEPT !.content = content, !.isModified = TRUE]]

\* handleFileSave(file) of the render whose project files are given
FileSave(fs, file) == [fs EXCEPT ![file.id] = file]

\* the test of the content-change handler before it records an entry, on
\* the lastSavedContent of its closure
RecordsEdit(closure, content) ==
  /\ content # closure.lastSavedContent
  /\ Trim(closure.lastSavedContent) # Trim(content)

\* the editor shows the content of the current file (the value prop of
\* <Editor> and the editor's model agree)
InSync ==
  IF editorPanel.editor.mounted /\ currentFile # "none"
    THEN files[currentFile].content = editorPanel.editor.value
    ELSE TRUE

\* one more event of the editor panel has been handled
Tick(ep) == [ep EXCEPT !.events = @ + 1]

\* the editor panel can handle one more event
MayTick == editorPanel.events < MaxEditorEvents

\* a call of one of the editor panel's handlers
EditorCall(op, fileId, arg, result) ==
  [op |-> op, fileId |-> fileId, result |-> result, arg |-> arg,
   after |-> lastOp.op, before |-> NoBefore]

\* the useEffect on [currentFile?.id]: setLastSavedContent(currentFile.content)
\* when the current file's id has changed to that of a file
LastSavedAfter(fileId, content) ==
  IF fileId # currentFile /\ fileId # "none"
    THEN content
    ELSE editorPanel.lastSavedContent

\* handleFileSelect(file), from the file tree
handleFileSelect(f) ==
  /\ applying = Idle
  /\ InSync
  /\ MayTick
  /\ currentFile' = f
  /\ editorPanel' = Tick([editorPanel EXCEPT
                            !.lastSavedContent = LastSavedAfter(f, files[f].content)])
  /\ lastOp' = EditorCall("handleFileSelect", f, null, null)
  /\ Snapshot
  /\ UNCHANGED <<history, currentIndex, nextId, files, messages, saved>>
  /\ UNCHANGED panelVars

\* handleFileClose(file) of the current file when no other file is open:
\* the current file becomes null and <Editor> is unmounted
handleFileClose ==
  /\ applying = Idle
  /\ InSync
  /\ MayTick
  /\ currentFile # "none"
  /\ currentFile' = "none"
  /\ editorPanel' = Tick([editorPanel EXCEPT !.editor = NoEditor])
  /\ lastOp' = EditorCall("handleFileClose", currentFile, null, null)
  /\ Snapshot
  /\ UNCHANGED <<history, currentIndex, nextId, files, messages, saved>>
  /\ UNCHANGED panelVars

\* handleEditorDidMount(editor, monaco): the commands and the content-change
\* handler it registers keep the currentFile, the lastSavedContent and the
\* onFileChange / onFileSave (with their project files) of this render
handleEditorDidMount ==
  /\ applying = Idle
  /\ currentFile # "none"
  /\ ~editorPanel.editor.mounted
  /\ MayTick
  /\ editorPanel' = Tick([editorPanel EXCEPT
                            !.editor = [mounted |-> TRUE,
                                        value |-> files[currentFile].content,
                                        closure |-> [currentFile |-> files[currentFile],
                                                     files |-> files,
                                                     lastSavedContent |->
                                                       editorPanel.lastSavedContent]]])
  /\ lastOp' = EditorCall("handleEditorDidMount", currentFile, null, null)
  /\ Snapshot
  /\ UNCHANGED <<history, currentIndex, nextId, files, currentFile, messages, saved>>
  /\ UNCHANGED panelVars

\* the handler given to editor.onDidChangeModelContent, run when the
\* editor's content has become content: onFileChange, then the 'Manual
\* edit' entry, then the auto-save timer
ContentChanged(content, op) ==
  LET ed == editorPanel.editor
      cl == ed.closure
      f == cl.currentFile.id
      rec == RecordsEdit(cl, content)
  IN /\ nextId <= MaxEditorEntries
     /\ MayTick
     /\ files' = FileChange(cl.currentFile, cl.files, content)
     /\ currentFile' = f
     /\ IF rec
          THEN /\ history' = AddEntryHistory(history, currentIndex, nextId, f,
                                             cl.lastSavedContent, ManualEdit, FALSE)
               /\ currentIndex' = AddEntryIndex(history, currentIndex, nextId, f,
                                                cl.lastSavedContent, ManualEdit, FALSE)
               /\ nextId' = nextId + 1
          ELSE UNCHANGED <<history, currentIndex, nextId>>
     /\ editorPanel' =
          [lastSavedContent |-> IF rec THEN content ELSE LastSavedAfter(f, content),
           editor |-> [ed EXCEPT !.value = content],
           saveTimeouts |-> { t \in editorPanel.saveTimeouts : t.closure # cl }
                              \cup { [content |-> content, closure |-> cl] },
           events |-> editorPanel.events + 1]
     /\ lastOp' = EditorCall(op, f, [c0 |-> ed.value, c1 |-> content],
                             IF rec THEN NewEntry(nextId, f, cl.lastSavedContent,
                                                  ManualEdit, FALSE)
                                    ELSE null)
     /\ Snapshot
     /\ UNCHANGED <<messages, saved>>
     /\ UNCHANGED panelVars

\* the user types: the editor's content becomes c and the handler runs
userEdit(c) ==
  /\ applying = Idle
  /\ editorPanel.editor.mounted
  /\ InSync
  /\ c # editorPanel.editor.value
  /\ ContentChanged(c, "userEdit")

\* <Editor value={currentFile.content}>: a value that differs from the
\* editor's content is written into the editor, which runs the handler
valueSync ==
  /\ applying = Idle
  /\ editorPanel.editor.mounted
  /\ ~InSync
  /\ ContentChanged(files[currentFile].content, "valueSync")

\* the Save button (enabled while the current file is modified): onFileSave
\* of the current render with the editor's content
saveButton ==
  /\ applying = Idle
  /\ editorPanel.editor.mounted
  /\ InSync
  /\ currentFile # "none"
  /\ files[currentFile].isModified
  /\ MayTick
  /\ editorPanel' = Tick(editorPanel)
  /\ LET updatedFile == [files[currentFile] EXCEPT
                           !.content = editorPanel.editor.value,
                           !.isModified = FALSE]
     IN /\ files' = FileSave(files, updatedFile)
        /\ saved' = [saved EXCEPT ![currentFile] = updatedFile.content]
  /\ lastOp' = EditorCall("saveButton", currentFile, null, null)
  /\ Snapshot
  /\ UNCHANGED <<history, currentIndex, nextId, currentFile, messages>>
  /\ UNCHANGED panelVars

\* onFileSave(updatedFile) as the editor's closure calls it: the file and the
\* project files are those of the render the editor was mounted in
ClosureSave(closure, content, timeouts, op) ==
  LET updatedFile == [closure.currentFile EXCEPT
                        !.content = content, !.isModified = FALSE]
  IN /\ MayTick
     /\ files' = FileSave(closure.files, updatedFile)
     /\ currentFile' = updatedFile.id
     /\ saved' = [saved EXCEPT ![updatedFile.id] = content]
     /\ editorPanel' = Tick([editorPanel EXCEPT
                               !.lastSavedContent = LastSavedAfter(updatedFile.id, content),
                               !.saveTimeouts = timeouts])
     /\ lastOp' = EditorCall(op, updatedFile.id, null, null)
     /\ Snapshot
     /\ UNCHANGED <<history, currentIndex, nextId, messages>>
     /\ UNCHANGED panelVars

\* the Ctrl+S command registered at mount
saveCommand ==
  /\ applying = Idle
  /\ editorPanel.editor.mounted
  /\ InSync
  /\ ClosureSave(editorPanel.editor.closure, editorPanel.editor.value,
                 editorPanel.saveTimeouts, "saveCommand")

\* the auto-save timer set by the content-change handler fires
saveTimeoutFires(t) ==
  /\ applying = Idle
  /\ InSync
  /\ t \in editorPanel.saveTimeouts
  /\ ClosureSave(t.closure, t.content, editorPanel.saveTimeouts \ {t},
                 "saveTimeoutFires")

\* the editor panel, the file tree and the chat panel's three handlers
NextEditor ==
  \/ \E f \in FileIds : handleFileSelect(f)
  \/ handleFileClose
  \/ handleEditorDidMount
  \/ \E c \in TypedContents : userEdit(c)
  \/ valueSync
  \/ saveButton
  \/ saveCommand
  \/ \E t \in editorPanel.saveTimeouts : saveTimeoutFires(t)
  \/ \E s \in EditorSuggestions :
       /\ InSync
       /\ nextId + 1 <= MaxEditorEntries
       /\ nextMsgId <= MaxEditorMessages
       /\ handleApplySuggestion(s)
  \/ InSync /\ nextMsgId <= MaxEditorMessages /\ handleUndo
  \/ InSync /\ nextMsgId <= MaxEditorMessages /\ handleRedo

SpecEditor == Init /\ [][NextEditor]_vars

(* ------------------- position and length of a document ----------------- *)

HasPosition(ci, fileId) == fileId \in DOMAIN ci

\* the position is before the tail of the list
BeforeTail(h, ci, fileId) ==
  HasPosition(ci, fileId) /\ ci[fileId] < Len(HistoryOrEmpty(h, fileId)) - 1

(* -------------------------------- claims ------------------------------- *)

\* C1: in every reachable state, for every document, the current position
\* is either empty (the document has no entries) or an index i with
\* 0 <= i < length of the document's entry list.
C1_PositionValid ==
  \A f \in FileIds :
    IF HasPosition(currentIndex, f)
      THEN currentIndex[f] >= 0 /\ currentIndex[f] < Len(getHistory(history, f))
      ELSE getHistory(history, f) = <<>>

\* C2: addEntry at a valid position i of a list of length n below the cap
\* yields the first i+1 old entries followed by the new entry.
C2_AddKeepsPrefix ==
  (/\ lastOp.op = "addEntry"
   /\ HasPosition(preIndex, lastOp.fileId)
   /\ preIndex[lastOp.fileId] >= 0
   /\ preIndex[lastOp.fileId] < Len(preHistory[lastOp.fileId])
   /\ Len(preHistory[lastOp.fileId]) < maxHistorySize)
  => getHistory(history, lastOp.fileId) =
       Append(SubSeq(preHistory[lastOp.fileId], 1, preIndex[lastOp.fileId] + 1),
              lastOp.arg)

\* C3: for every sequence of addEntry calls on one document from an empty
\* history, canRedo is false after each call.
C3_NoRedoAfterAdd ==
  lastOp.op = "addEntry" => ~canRedo(history, currentIndex, lastOp.fileId)

\* C4: after every addEntry call the position is at the tail of the list and
\* getCurrentEntry returns the entry just added (content, description, origin).
C4_AddMovesToTail ==
  lastOp.op = "addEntry" =>
    /\ HasPosition(currentIndex, lastOp.fileId)
    /\ currentIndex[lastOp.fileId] = Len(getHistory(history, lastOp.fileId)) - 1
    /\ getCurrentEntry(history, currentIndex, lastOp.fileId) = lastOp.arg

\* an addEntry made right after a successful undo, on a list that had entries
\* after the position
C4_Witness ==
  /\ lastOp.op = "addEntry"
  /\ lastOp.after = "undo"
  /\ Len(preHistory[lastOp.fileId]) >= 2
  /\ preIndex[lastOp.fileId] < Len(preHistory[lastOp.fileId]) - 1

\* C7: canRedo is true iff the position is strictly less than the last index
\* of the entry list (false at the only entry of a one-entry list).
C7_CanRedoIffBeforeTail ==
  \A f \in FileIds :
    canRedo(history, currentIndex, f) <=> BeforeTail(history, currentIndex, f)

\* C8: redo before the tail increments the position by one and returns the
\* entry now pointed to, an entry of the list; at the tail or on an empty
\* history it returns nothing and leaves entries and position unchanged.
C8_RedoStep ==
  lastOp.op = "redo" =>
    IF BeforeTail(preHistory, preIndex, lastOp.fileId)
      THEN /\ currentIndex[lastOp.fileId] = preIndex[lastOp.fileId] + 1
           /\ Truthy(lastOp.result)
           /\ lastOp.result = At(getHistory(history, lastOp.fileId),
                                 currentIndex[lastOp.fileId])
      ELSE /\ ~Truthy(lastOp.result)
           /\ history = preHistory
           /\ currentIndex = preIndex

\* C9: undo at a position greater than 0 decrements the position by one and
\* returns the entry now pointed to; at position 0 or on an empty history it
\* returns nothing and leaves entries and position unchanged.
C9_UndoStep ==
  lastOp.op = "undo" =>
    IF HasPosition(preIndex, lastOp.fileId) /\ preIndex[lastOp.fileId] > 0
      THEN /\ currentIndex[lastOp.fileId] = preIndex[lastOp.fileId] - 1
           /\ Truthy(lastOp.result)
           /\ lastOp.result = At(getHistory(history, lastOp.fileId),
                                 currentIndex[lastOp.fileId])
      ELSE /\ ~Truthy(lastOp.result)
           /\ history = preHistory
           /\ currentIndex = preIndex

\* an undo that moved the position from 2 to 1
C9_Witness ==
  /\ lastOp.op = "undo"
  /\ Truthy(lastOp.result)
  /\ preIndex[lastOp.fileId] = 2
  /\ currentIndex[lastOp.fileId] = 1

\* C10: a successful undo followed by redo on the same document returns the
\* position to its value before the undo, and redo returns the entry that
\* was current before the undo.
C10_UndoRedoRoundTrip ==
  (lastOp.op = "redo" /\ lastOp.before # NoBefore) =>
    /\ currentIndex[lastOp.fileId] = lastOp.before.idx
    /\ Truthy(lastOp.result)
    /\ lastOp.result = lastOp.before.entry

(* --------------------------- claims: ChatPanel ------------------------- *)

\* the handler ran on a present document
AppliedSuggestion == lastOp.op = "handleApplySuggestion" /\ lastOp.fileId # "none"

\* the entries of the document's list created by the last handler call
NewEntries(fileId) ==
  SelectSeq(getHistory(history, fileId), LAMBDA e : e.id >= lastOp.arg.firstId)

\* C5: handleApplySuggestion on a present document appends exactly two new
\* history entries to the document's list, in this order: "Before applying:
\* <title>" (manual, pre-apply content), then "Applied: <title>" (suggested,
\* new content); both are in getHistory afterwards.
C5_ApplyAppendsPair ==
  AppliedSuggestion =>
    NewEntries(lastOp.fileId) =
      << NewEntry(lastOp.arg.firstId, lastOp.fileId, lastOp.arg.oldCode,
                  BeforeApplying(lastOp.arg.suggestion.title), FALSE),
         NewEntry(lastOp.arg.firstId + 1, lastOp.fileId, lastOp.arg.updatedCode,
                  Applied(lastOp.arg.suggestion.title), TRUE) >>

\* C6: right after handleApplySuggestion on a present document canUndo is
\* true, one undo returns the entry holding the pre-apply content and the
\* redo that follows returns the entry holding the applied content.
C6_ApplyReversible ==
  AppliedSuggestion =>
    /\ canUndo(currentIndex, lastOp.fileId)
    /\ Truthy(UndoResult(history, currentIndex, lastOp.fileId))
    /\ UndoResult(history, currentIndex, lastOp.fileId).content = lastOp.arg.oldCode
    /\ Truthy(RedoResult(history, UndoIndex(currentIndex, lastOp.fileId), lastOp.fileId))
    /\ RedoResult(history, UndoIndex(currentIndex, lastOp.fileId), lastOp.fileId).content
         = lastOp.arg.updatedCode

(* ---------------------- claims: cap and unknown ids -------------------- *)

\* C11: in every reachable state, for every document, the length of
\* getHistory never exceeds the history cap.
C11_LengthWithinCap ==
  \A f \in FileIds : Len(getHistory(history, f)) <= maxHistorySize

\* the addEntry call pushed onto a list that was full, with the position at
\* its tail
PushedPastCap ==
  /\ lastOp.op = "addEntry"
  /\ HasPosition(preIndex, lastOp.fileId)
  /\ Len(preHistory[lastOp.fileId]) = maxHistorySize
  /\ preIndex[lastOp.fileId] = maxHistorySize - 1

\* an addEntry on a full list, after which the list is still full
C11_Witness ==
  PushedPastCap /\ Len(getHistory(history, lastOp.fileId)) = maxHistorySize

\* C12: when an addEntry pushes the list past the cap, exactly the oldest
\* entry is evicted, the others keep their order, and the position refers to
\* the newly added entry at the tail.
C12_EvictsOldest ==
  PushedPastCap =>
    /\ getHistory(history, lastOp.fileId) =
         Append(Tail(preHistory[lastOp.fileId]), lastOp.arg)
    /\ currentIndex[lastOp.fileId] = Len(getHistory(history, lastOp.fileId)) - 1
    /\ getCurrentEntry(history, currentIndex, lastOp.fileId) = lastOp.arg

\* an eviction whose evicted entry differs in content from the one that
\* becomes the oldest
C12_Witness ==
  /\ PushedPastCap
  /\ preHistory[lastOp.fileId][1].content # preHistory[lastOp.fileId][2].content
  /\ getHistory(history, lastOp.fileId)[1] = preHistory[lastOp.fileId][2]

\* the document has no stored history (never added to, or cleared)
Unknown(h, fileId) == fileId \notin DOMAIN h

\* C13: for a document id without stored history canUndo and canRedo are
\* false, undo and redo return nothing, getHistory is empty, getCurrentEntry
\* returns nothing, and undo and redo leave the stored state of every
\* document as it was.
C13_UnknownIdIsEmpty ==
  /\ \A f \in FileIds :
       Unknown(history, f) =>
         /\ ~canUndo(currentIndex, f)
         /\ ~canRedo(history, currentIndex, f)
         /\ UndoResult(history, currentIndex, f) = null
         /\ RedoResult(history, currentIndex, f) = null
         /\ getHistory(history, f) = <<>>
         /\ getCurrentEntry(history, currentIndex, f) = null
  /\ (lastOp.op \in {"undo", "redo"} /\ Unknown(preHistory, lastOp.fileId)) =>
       /\ lastOp.result = null
       /\ history = preHistory
       /\ currentIndex = preIndex

\* a redo on a document without stored history while the other document has
\* entries
C13_Witness ==
  /\ lastOp.op = "redo"
  /\ Unknown(history, lastOp.fileId)
  /\ lastOp.result = null
  /\ DOMAIN history # {}

(* ---------------------- claims: applying the changes ------------------- *)

\* the changes applied one after the other, the last one to the result of
\* all the changes before it
RECURSIVE FoldChanges(_, _)
FoldChanges(code, changes) ==
  IF changes = <<>> THEN code
  ELSE StringReplace(FoldChanges(code, SubSeq(changes, 1, Len(changes) - 1)),
                     changes[Len(changes)].oldContent,
                     changes[Len(changes)].newContent)

ReplaceFirstLiteral(s, oldText, newText) ==
  IF \A i \in 1..(Len(s) + 1) : ~OccursAt(s, oldText, i) THEN s
  ELSE LET i == CHOOSE k \in 1..(Len(s) + 1) :
                  /\ OccursAt(s, oldText, k)
                  /\ \A j \in 1..(k - 1) : ~OccursAt(s, oldText, j)
       IN SubSeq(s, 1, i - 1) \o newText \o SubSeq(s, i + Len(oldText), Len(s))

\* C17: applying one change replaces the first occurrence of oldText in the
\* content by newText and leaves the later occurrences as they are.
C17_FirstOccurrenceOnly ==
  (AppliedSuggestion /\ Len(lastOp.arg.suggestion.changes) = 1) =>
    files[lastOp.fileId].content =
      ReplaceFirstLiteral(lastOp.arg.oldCode,
                          lastOp.arg.suggestion.changes[1].oldContent,
                          lastOp.arg.suggestion.changes[1].newContent)

\* the pair of entries a call of handleApplySuggestion is to leave in the list
BeforeAppliedPair ==
  << NewEntry(lastOp.arg.firstId, lastOp.fileId, lastOp.arg.oldCode,
              BeforeApplying(lastOp.arg.suggestion.title), FALSE),
     NewEntry(lastOp.arg.firstId + 1, lastOp.fileId, lastOp.arg.updatedCode,
              Applied(lastOp.arg.suggestion.title), TRUE) >>

\* C18: with a change whose oldText does not occur in the content the content
\* is left unchanged for that change and both history entries are still
\* appended.
C18_MissingTextIsNoOp ==
  (/\ AppliedSuggestion
   /\ Len(lastOp.arg.suggestion.changes) = 1
   /\ \A i \in 1..(Len(lastOp.arg.oldCode) + 1) :
        ~OccursAt(lastOp.arg.oldCode, lastOp.arg.suggestion.changes[1].oldContent, i))
  => /\ files[lastOp.fileId].content = lastOp.arg.oldCode
     /\ NewEntries(lastOp.fileId) = BeforeAppliedPair

\* C19: with an empty changes array the content is unchanged and the
\* Before/Applied pair is still recorded, both entries holding that content.
C19_EmptyChangesIsNoOp ==
  (AppliedSuggestion /\ lastOp.arg.suggestion.changes = <<>>)
  => /\ files[lastOp.fileId].content = lastOp.arg.oldCode
     /\ Len(NewEntries(lastOp.fileId)) = 2
     /\ NewEntries(lastOp.fileId) = BeforeAppliedPair
     /\ NewEntries(lastOp.fileId)[1].content = lastOp.arg.oldCode
     /\ NewEntries(lastOp.fileId)[2].content = lastOp.arg.oldCode

C14_AppliedNoLongerOffered ==
  AppliedSuggestion
    => \A s \in Rendered(messages, messageSuggestions) :
         s.id # lastOp.arg.suggestion.id

\* C15: while a suggestion is being applied and some of its changes are not
\* yet applied to the new content, no history entry has been recorded for
\* the document: the history and the positions are those the handler found
C15_ContentBeforeHistory ==
  (applying # Idle /\ applying.applied < Len(applying.suggestion.changes))
    => (history = preHistory /\ currentIndex = preIndex)

\* C22: after dismiss(suggestionId) no message maps to a list holding that
\* id, every other suggestion is where it was, in the same order, and the
\* documents, the histories, the positions and the messages are untouched
C22_DismissRemovesEverywhere ==
  lastOp.op = "handleDismissSuggestion" =>
    /\ \A m \in DOMAIN messageSuggestions :
         \A j \in 1..Len(messageSuggestions[m]) :
           messageSuggestions[m][j].id # lastOp.arg
    /\ \A m \in DOMAIN preApp.messageSuggestions :
         SelectSeq(preApp.messageSuggestions[m], LAMBDA s : s.id # lastOp.arg)
           = (IF m \in DOMAIN messageSuggestions THEN messageSuggestions[m] ELSE <<>>)
    /\ DOMAIN messageSuggestions \subseteq DOMAIN preApp.messageSuggestions
    /\ files = preApp.files
    /\ messages = preApp.messages
    /\ history = preHistory
    /\ currentIndex = preIndex

\* a suggestion held by two messages has been dismissed while another
\* suggestion stays
C22_Witness ==
  /\ lastOp.op = "handleDismissSuggestion"
  /\ Cardinality({ m \in DOMAIN preApp.messageSuggestions :
                     \E j \in 1..Len(preApp.messageSuggestions[m]) :
                       preApp.messageSuggestions[m][j].id = lastOp.arg }) = 2
  /\ messageSuggestions # EmptyMap

\* C23: with no current document, confirmApply, undoLast and redoLast return
\* nothing and change nothing: histories, positions, documents and messages
\* are what they were
C23_AbsentDocumentNoOp ==
  (lastOp.op \in {"handleApplySuggestion", "handleUndo", "handleRedo"}
     /\ lastOp.fileId = "none")
  => /\ lastOp.result = null
     /\ history = preHistory
     /\ currentIndex = preIndex
     /\ files = preApp.files
     /\ messages = preApp.messages

\* undo is asked for with no current document while a document has a step
\* that could be undone
C23_Witness ==
  /\ lastOp.op = "handleUndo"
  /\ lastOp.fileId = "none"
  /\ \E f \in FileIds : canUndo(currentIndex, f)

\* C25: undo and redo, successful or not, leave every document's entry list
\* as it was; only the position of the document named may move, and by one
C25_UndoRedoKeepEntries ==
  lastOp.op \in {"undo", "redo"} =>
    /\ history = preHistory
    /\ DOMAIN currentIndex = DOMAIN preIndex
    /\ \A f \in DOMAIN currentIndex :
         IF f = lastOp.fileId
           THEN currentIndex[f] - preIndex[f] \in {-1, 0, 1}
           ELSE currentIndex[f] = preIndex[f]

\* an undo has moved the position back
C25_Witness ==
  /\ lastOp.op = "undo"
  /\ Truthy(lastOp.result)
  /\ currentIndex[lastOp.fileId] = preIndex[lastOp.fileId] - 1

\* entry list and position of document b are the same in both pairs of maps
SameHistory(h1, ci1, h2, ci2, b) ==
  /\ b \in DOMAIN h1 <=> b \in DOMAIN h2
  /\ b \in DOMAIN ci1 <=> b \in DOMAIN ci2
  /\ b \in DOMAIN h1 => h1[b] = h2[b]
  /\ b \in DOMAIN ci1 => ci1[b] = ci2[b]

\* C26: addEntry, undo, redo and clearHistory on one document leave the
\* entry list and the position of every other document unchanged;
\* clearAllHistory leaves every document with an empty history
C26_HistoriesIndependent ==
  /\ lastOp.op \in {"addEntry", "undo", "redo", "clearHistory"} =>
       \A b \in FileIds \ {lastOp.fileId} :
         SameHistory(history, currentIndex, preHistory, preIndex, b)
  /\ lastOp.op = "clearAllHistory" =>
       \A f \in FileIds :
         /\ getHistory(history, f) = <<>>
         /\ getCurrentEntry(history, currentIndex, f) = null
         /\ ~canUndo(currentIndex, f)
         /\ ~canRedo(history, currentIndex, f)

\* an entry has been added to one document while another has entries
C26_Witness ==
  /\ lastOp.op = "addEntry"
  /\ \E b \in FileIds \ {lastOp.fileId} :
       /\ b \in DOMAIN history
       /\ Len(history[b]) >= 1
       /\ history[b] # history[lastOp.fileId]

C21_PreviewChangesNothing ==
  lastOp.op \in {"setIsExpanded", "setShowDiff", "handleApply"} =>
    /\ files = preApp.files
    /\ history = preHistory
    /\ currentIndex = preIndex
    /\ messages = preApp.messages
    /\ messageSuggestions = preApp.messageSuggestions

\* the dialog of a suggestion whose diff is shown has been opened while a
\* document is current and has a history
C21_Witness ==
  /\ lastOp.op = "handleApply"
  /\ cards[lastOp.arg].showDiff
  /\ cards[lastOp.arg].showConfirmation
  /\ currentFile # "none"
  /\ currentFile \in DOMAIN history

\* C27: the apply callback runs only from an open confirmation dialog that
\* is confirmed: the dialog of that suggestion was open before the apply and
\* is closed after it, no other component changes, and one apply is made;
\* cancelling closes the dialog and changes no document, history, position,
\* message or pending suggestion
C27_ApplyOnlyThroughConfirmation ==
  /\ lastOp.op = "handleApplySuggestion" =>
       \E k \in DOMAIN preApp.cards :
         /\ preApp.cards[k].showConfirmation
         /\ DOMAIN cards = DOMAIN preApp.cards
         /\ cards = [preApp.cards EXCEPT ![k].showConfirmation = FALSE]
         /\ lastOp.fileId # "none" =>
              /\ k[2] = lastOp.arg.suggestion.id
              /\ Len(messages) = Len(preApp.messages) + 1
  /\ lastOp.op = "handleCancelApply" =>
       /\ preApp.cards[lastOp.arg].showConfirmation
       /\ cards = [preApp.cards EXCEPT ![lastOp.arg].showConfirmation = FALSE]
       /\ files = preApp.files
       /\ history = preHistory
       /\ currentIndex = preIndex
       /\ messages = preApp.messages
       /\ messageSuggestions = preApp.messageSuggestions

\* a confirmed dialog has applied its suggestion to a document
C27_Witness ==
  /\ lastOp.op = "handleApplySuggestion"
  /\ lastOp.fileId # "none"
  /\ lastOp.arg.updatedCode # lastOp.arg.oldCode
  /\ \E k \in DOMAIN preApp.cards : preApp.cards[k].showConfirmation

\* C24: in every state, a document is flagged as modified exactly when its
\* content differs from the content it had when it was last saved
C24_ModifiedIffDiffersFromSaved ==
  \A f \in FileIds : files[f].isModified <=> files[f].content # saved[f]

\* C28: when the editor takes over a content written by confirmApply,
\* undoLast or redoLast, its content-change handler records no history
\* entry: entry lists and positions stay as the panel's handler left them
C28_ProgrammaticChangeAddsNoEntry ==
  (lastOp.op = "valueSync"
     /\ lastOp.after \in {"handleApplySuggestion", "handleUndo", "handleRedo"})
  => (history = preHistory /\ currentIndex = preIndex)

\* C29: when the editor has recorded a manual edit from content c0 to
\* content c1 and undoLast comes next on that document, the live document's
\* content is c0 after it
C29_ManualEditUndoRestores ==
  [][ (/\ lastOp.op = "userEdit"
       /\ Truthy(lastOp.result)
       /\ lastOp'.op = "handleUndo"
       /\ lastOp'.fileId = lastOp.fileId)
      => files'[lastOp.fileId].content = lastOp.arg.c0 ]_vars

TypeOK ==
  /\ DOMAIN history \subseteq FileIds
  /\ DOMAIN currentIndex = DOMAIN history
  /\ nextId \in 1..(MaxEntries + MaxPanelEntries + 1)
  /\ currentFile \in FileIds \cup {"none"}
  /\ Len(messages) <= MaxMessages
  /\ nextMsgId \in 1..(MaxMessages + 1)
  /\ DOMAIN messageSuggestions \subseteq 1..MaxMessages
  /\ Len(sending) <= 1
====
